---- MODULE Spec2Model ----
(***************************************************************************)
(* chainx-cli, `metadata get`: src/src/app/meta.rs.                        *)
(*                                                                         *)
(*   Meta::run              fetch_metadata(url)?; display_metadata(..)?    *)
(*   Meta::fetch_metadata   HTTP post, JSON, result string, hex, SCALE     *)
(*   Meta::display_metadata lookup of one pallet (or the whole tree),      *)
(*                          serde_json::to_string_pretty, println!         *)
(*                                                                         *)
(* Text (names, JSON output, SCALE input) is a sequence of byte values;    *)
(* a hex string is a sequence of one-character strings.  The SCALE layout  *)
(* is the one the derived Decode of RuntimeMetadataPrefixed reads, with    *)
(* each module reduced to its first and last field (name, index) and the   *)
(* metadata body to its module list followed by the extrinsic version.     *)
(*                                                                         *)
(* chainx-cli, `rpc <command>`: src/src/cli/rpc.rs.                        *)
(*                                                                         *)
(*   RpcCommand::dispatch   one call on the Rpc per command variant,       *)
(*                          fut.wait()?, to_string_pretty, println!        *)
(***************************************************************************)
EXTENDS Integers, Sequences, FiniteSets, TLC

VARIABLES
    pc,        \* position in Meta::run: "fetch", "display", "done";
               \* in dispatch: "dispatch", "wait", "done"
    resp,      \* what the node answers to the state_getMetadata request;
               \* in dispatch, what fut.wait() yields
    pallets,   \* GetOpt.pallet : Option<String>
    metadata,  \* the RuntimeMetadataPrefixed handed to display_metadata
    stdout,    \* the lines println! has written
    result,    \* the Result<()> Meta::run or dispatch returns (Running
               \* until it returns)
    command,   \* the RpcCommand given to dispatch
    calls      \* the calls dispatch has made on its Rpc, in order

vars == <<pc, resp, pallets, metadata, stdout, result, command, calls>>

----------------------------------------------------------------------------
(* Bounds of the checked instances.                                        *)

MaxModules == 2

----------------------------------------------------------------------------
(* Option and Result.                                                      *)

None == [some |-> FALSE]
Some(v) == [some |-> TRUE, v |-> v]

Ok(v) == [ok |-> TRUE, val |-> v]

\* An anyhow::Error: the type of the error it wraps, its message, and the
\* arguments formatted into the message (none anywhere in meta.rs).
Err(ty, msg) == [ok |-> FALSE, ty |-> ty, msg |-> msg, args |-> <<>>]

Running == [ok |-> FALSE, ty |-> "none", msg |-> "running", args |-> <<>>]
NoMetadata == [prefix |-> 0, runtime |-> [version |-> 0, opaque |-> <<>>]]

Drop(s, n) == SubSeq(s, n + 1, Len(s))
Take(s, n) == SubSeq(s, 1, n)

----------------------------------------------------------------------------
(* frame_metadata::decode_different::DecodeDifferent.                      *)

Decoded(o) == [st |-> "Decoded", v |-> o]
Encode(b) == [st |-> "Encode", v |-> b]

\* Compact<u32>::encode
compact_encode(n) ==
    IF n < 64 THEN <<4 * n>>
    ELSE IF n < 16384 THEN <<(4 * n + 1) % 256, (4 * n + 1) \div 256>>
    ELSE <<(4 * n + 2) % 256, ((4 * n + 2) \div 256) % 256,
           ((4 * n + 2) \div 65536) % 256, (4 * n + 2) \div 16777216>>

\* str/String::encode: the compact length, then the bytes.
str_encode(s) == compact_encode(Len(s)) \o s

\* DecodeDifferent::encode writes the inner value of either state.
dd_str_encode(d) == str_encode(d.v)

\* a comparison that accepts a name starting with the one asked for
dd_eq_prefix(a, b) ==
    LET x == dd_str_encode(a)
        y == dd_str_encode(b)
    IN  Len(y) <= Len(x) /\ Take(Drop(x, 1), Len(y) - 1) = Drop(y, 1)

\* DecodeDifferent's PartialEq, the `==` of meta.rs lines 68 and 81: two
\* values are equal when their SCALE encodings are, whichever state each
\* is in.
dd_eq(a, b) == dd_str_encode(a) = dd_str_encode(b)

\* a comparison that ignores the case of ASCII letters
ToLower(s) == [i \in 1..Len(s) |-> IF s[i] >= 65 /\ s[i] <= 90 THEN s[i] + 32 ELSE s[i]]

str_eq_nocase(a, b) == ToLower(a) = ToLower(b)

\* String's PartialEq, the `==` of meta.rs line 89.
str_eq(a, b) == a = b

----------------------------------------------------------------------------
(* scale::Decode::decode(&mut &bytes[..]) for RuntimeMetadataPrefixed.     *)
(* A reader returns [ok, val, rest] or [ok = FALSE, msg].                  *)

DOk(v, rest) == [ok |-> TRUE, val |-> v, rest |-> rest]
DErr(msg) == [ok |-> FALSE, msg |-> msg]

NotEnoughData == "Not enough data to fill buffer"
NotSupported == "Decoding is not supported"
NoSuchVariant == "Could not decode `RuntimeMetadata`, variant doesn't exist"
InvalidUtf8 == "Invalid utf8 sequence"
CompactOutOfRange == "out of range decoding Compact<u32>"
CompactPrefix == "unexpected prefix decoding Compact<>"

\* the `?` of a reader: its error as it is, or F on the value read and the
\* bytes left
and_then(r, F(_, _)) == IF r.ok THEN F(r.val, r.rest) ELSE r

le_u32(b) == b[1] + 256 * b[2] + 65536 * b[3] + 16777216 * b[4]

\* a read that yields 0 once the input is exhausted
read_u8_or_default(b) ==
    IF Len(b) < 1 THEN DOk(0, b) ELSE DOk(b[1], Drop(b, 1))

read_u8(b) ==
    IF Len(b) < 1 THEN DErr(NotEnoughData) ELSE DOk(b[1], Drop(b, 1))

read_u32(b) ==
    IF Len(b) < 4 THEN DErr(NotEnoughData) ELSE DOk(le_u32(b), Drop(b, 4))

\* the least value each multi-byte mode of a compact integer may hold
compact_in_range(x, least, rest) ==
    IF x >= least THEN DOk(x, rest) ELSE DErr(CompactOutOfRange)

\* Compact<u32>::decode
read_compact(b) ==
    IF Len(b) < 1 THEN DErr(NotEnoughData)
    ELSE CASE b[1] % 4 = 0 -> DOk(b[1] \div 4, Drop(b, 1))
           [] b[1] % 4 = 1 ->
                IF Len(b) < 2 THEN DErr(NotEnoughData)
                ELSE compact_in_range((b[1] + 256 * b[2]) \div 4, 64, Drop(b, 2))
           [] b[1] % 4 = 2 ->
                IF Len(b) < 4 THEN DErr(NotEnoughData)
                ELSE compact_in_range(le_u32(b) \div 4, 16384, Drop(b, 4))
           [] OTHER ->
                IF b[1] \div 4 # 0 THEN DErr(CompactPrefix)
                ELSE IF Len(b) < 5 THEN DErr(NotEnoughData)
                ELSE compact_in_range(le_u32(Drop(b, 1)), 1073741824, Drop(b, 5))

\* String::decode: Vec<u8>, then from_utf8 (one-byte code points only here).
read_string(b) ==
    and_then(read_compact(b), LAMBDA n, rest :
        IF Len(rest) < n THEN DErr(NotEnoughData)
        ELSE IF \E i \in 1..n : rest[i] > 127 THEN DErr(InvalidUtf8)
        ELSE DOk(Take(rest, n), Drop(rest, n)))

\* ModuleMetadata (V12, V13): name: DecodeDifferentStr ... index: u8.
\* DecodeDifferent::decode always yields the Decoded state.
read_module(b) ==
    and_then(read_string(b), LAMBDA name, rest :
        and_then(read_u8(rest), LAMBDA index, rest2 :
            DOk([name |-> Decoded(name), index |-> index], rest2)))

\* PalletMetadata (V14): name: String ... index: u8.
read_pallet(b) ==
    and_then(read_string(b), LAMBDA name, rest :
        and_then(read_u8(rest), LAMBDA index, rest2 :
            DOk([name |-> name, index |-> index], rest2)))

\* Vec<T>::decode after its length: the items, one after the other.
RECURSIVE read_items(_, _, _, _)
read_items(b, n, acc, legacy) ==
    IF n = 0 THEN DOk(acc, b)
    ELSE and_then(IF legacy THEN read_module(b) ELSE read_pallet(b),
                  LAMBDA item, rest :
                      read_items(rest, n - 1, Append(acc, item), legacy))

read_vec(b, legacy) ==
    and_then(read_compact(b), LAMBDA n, rest : read_items(rest, n, <<>>, legacy))

\* RuntimeMetadataV12 / RuntimeMetadataV13 { modules, extrinsic }
read_legacy(b, version) ==
    and_then(read_vec(b, TRUE), LAMBDA modules, rest :
        and_then(read_u8(rest), LAMBDA ext, rest2 :
            DOk([version |-> version, modules |-> Decoded(modules),
                 extrinsic |-> ext], rest2)))

\* RuntimeMetadataV14 { pallets, extrinsic }
read_v14(b) ==
    and_then(read_vec(b, FALSE), LAMBDA ps, rest :
        and_then(read_u8(rest), LAMBDA ext, rest2 :
            DOk([version |-> 14, pallets |-> ps, extrinsic |-> ext], rest2)))

\* a dispatch that reads the body behind any variant byte
read_runtime_any_tag(b) ==
    and_then(read_u8(b), LAMBDA tag, rest :
        IF tag = 14 THEN read_v14(rest) ELSE read_legacy(rest, tag))

\* enum RuntimeMetadata: the variant byte, then the variant's fields.
\* V0..V11 hold RuntimeMetadataDeprecated, whose decode always fails.
read_runtime(b) ==
    and_then(read_u8(b), LAMBDA tag, rest :
        IF tag <= 11 THEN DErr(NotSupported)
        ELSE IF tag = 12 \/ tag = 13 THEN read_legacy(rest, tag)
        ELSE IF tag = 14 THEN read_v14(rest)
        ELSE DErr(NoSuchVariant))

\* struct RuntimeMetadataPrefixed(pub u32, pub RuntimeMetadata): the derived
\* decode reads the two fields in order; bytes left over are ignored.
scale_decode(bytes) ==
    and_then(read_u32(bytes), LAMBDA prefix, rest :
        and_then(read_runtime(rest), LAMBDA runtime, rest2 :
            DOk([prefix |-> prefix, runtime |-> runtime], rest2)))

----------------------------------------------------------------------------
(* hex_data.trim_start_matches("0x") and hex::decode.                      *)

starts_with_0x(s) == Len(s) >= 2 /\ s[1] = "0" /\ s[2] = "x"

\* one leading "0x" removed (str::strip_prefix, were it used)
strip_one_0x(s) == IF starts_with_0x(s) THEN Drop(s, 2) ELSE s

\* str::trim_start_matches: the pattern is removed for as long as it matches.
RECURSIVE trim_start_matches_0x(_)
trim_start_matches_0x(s) ==
    IF starts_with_0x(s) THEN trim_start_matches_0x(Drop(s, 2)) ELSE s

HexLower == <<"0", "1", "2", "3", "4", "5", "6", "7",
              "8", "9", "a", "b", "c", "d", "e", "f">>
HexUpper == <<"0", "1", "2", "3", "4", "5", "6", "7",
              "8", "9", "A", "B", "C", "D", "E", "F">>

\* hex::val: the value of one hex digit, -1 for any other character.
hex_val(c) ==
    IF \E i \in 1..16 : HexLower[i] = c
    THEN (CHOOSE i \in 1..16 : HexLower[i] = c) - 1
    ELSE IF \E i \in 1..16 : HexUpper[i] = c
    THEN (CHOOSE i \in 1..16 : HexUpper[i] = c) - 1
    ELSE -1

OddLength == "Odd number of digits"
InvalidHexCharacter == "Invalid character"

\* hex::decode
hex_decode(s) ==
    IF Len(s) % 2 # 0 THEN Err("hex::FromHexError", OddLength)
    ELSE IF \E i \in 1..Len(s) : hex_val(s[i]) < 0
    THEN Err("hex::FromHexError", InvalidHexCharacter)
    ELSE Ok([i \in 1..(Len(s) \div 2) |->
                16 * hex_val(s[2 * i - 1]) + hex_val(s[2 * i])])

----------------------------------------------------------------------------
(* Meta::fetch_metadata, on the node's answer `r`:                         *)
(*   r.transport  "ok" | "error"     send_json succeeded or not            *)
(*   r.body       "json" | "malformed"  what into_json makes of the body   *)
(*   r.ty, r.s    json["result"]: "string" with its characters, or "null"  *)
(*                (also a missing field) or "number"                       *)

FetchContext == "error fetching metadata from the substrate node"
NotAString == "metadata result field should be a string"

\* the `?` of fetch_metadata
try(r, F(_)) == IF r.ok THEN F(r.val) ELSE r

\* the codec error turned into a message error
from_codec_as_message(d) == IF d.ok THEN Ok(d.val) ELSE Err("anyhow", d.msg)

\* `?` on scale's Result: a codec::Error becomes the anyhow::Error
from_codec(d) == IF d.ok THEN Ok(d.val) ELSE Err("codec::Error", d.msg)

fetch_metadata(r) ==
    IF r.transport # "ok" THEN Err("ureq::Error", FetchContext)
    ELSE IF r.body # "json" THEN Err("std::io::Error", "into_json")
    ELSE IF r.ty # "string" THEN Err("anyhow", NotAString)
    ELSE try(hex_decode(trim_start_matches_0x(r.s)),
             LAMBDA bytes : from_codec(scale_decode(bytes)))

----------------------------------------------------------------------------
(* serde_json::to_string_pretty: JSON text with two-space indentation.     *)

K_name == <<110, 97, 109, 101>>
K_index == <<105, 110, 100, 101, 120>>
K_modules == <<109, 111, 100, 117, 108, 101, 115>>
K_pallets == <<112, 97, 108, 108, 101, 116, 115>>
K_extrinsic == <<101, 120, 116, 114, 105, 110, 115, 105, 99>>
K_version == <<118, 101, 114, 115, 105, 111, 110>>

Indent(l) == [i \in 1..(2 * l) |-> 32]

RECURSIVE json_num(_)
json_num(n) ==
    IF n < 10 THEN <<48 + n>> ELSE json_num(n \div 10) \o <<48 + (n % 10)>>

\* No character of the names modelled here needs an escape.
json_str(s) == <<34>> \o s \o <<34>>

\* items joined by ",\n", each behind the indentation of level l
RECURSIVE json_join(_, _)
json_join(items, l) ==
    IF Len(items) = 1 THEN Indent(l) \o items[1]
    ELSE Indent(l) \o items[1] \o <<44, 10>> \o json_join(Tail(items), l)

\* values are rendered at level l + 1 by the caller
json_arr(items, l) ==
    IF items = <<>> THEN <<91, 93>>
    ELSE <<91, 10>> \o json_join(items, l + 1) \o <<10>> \o Indent(l) \o <<93>>

json_obj(fields, l) ==
    IF fields = <<>> THEN <<123, 125>>
    ELSE <<123, 10>>
         \o json_join([i \in 1..Len(fields) |->
                          json_str(fields[i].k) \o <<58, 32>> \o fields[i].v],
                      l + 1)
         \o <<10>> \o Indent(l) \o <<125>>

\* DecodeDifferent serializes the inner value of either state.
ser_module(m, l) ==
    json_obj(<<[k |-> K_name, v |-> json_str(m.name.v)],
               [k |-> K_index, v |-> json_num(m.index)]>>, l)

ser_pallet(p, l) ==
    json_obj(<<[k |-> K_name, v |-> json_str(p.name)],
               [k |-> K_index, v |-> json_num(p.index)]>>, l)

ser_extrinsic(e, l) == json_obj(<<[k |-> K_version, v |-> json_num(e)]>>, l)

ser_runtime_body(r, l) ==
    IF r.version = 12 \/ r.version = 13
    THEN json_obj(<<[k |-> K_modules,
                     v |-> json_arr([i \in 1..Len(r.modules.v) |->
                                        ser_module(r.modules.v[i], l + 2)],
                                    l + 1)],
                    [k |-> K_extrinsic, v |-> ser_extrinsic(r.extrinsic, l + 1)]>>,
                  l)
    ELSE IF r.version = 14
    THEN json_obj(<<[k |-> K_pallets,
                     v |-> json_arr([i \in 1..Len(r.pallets) |->
                                        ser_pallet(r.pallets[i], l + 2)],
                                    l + 1)],
                    [k |-> K_extrinsic, v |-> ser_extrinsic(r.extrinsic, l + 1)]>>,
                  l)
    ELSE json_arr([i \in 1..Len(r.opaque) |-> json_num(r.opaque[i])], l)

\* enum RuntimeMetadata: {"V<n>": body}
ser_runtime(r, l) ==
    json_obj(<<[k |-> <<86>> \o json_num(r.version),
                v |-> ser_runtime_body(r, l + 1)]>>, l)

\* tuple struct RuntimeMetadataPrefixed: [prefix, runtime]
ser_prefixed(m) ==
    json_arr(<<json_num(m.prefix), ser_runtime(m.runtime, 1)>>, 0)

----------------------------------------------------------------------------
(* Meta::display_metadata.                                                 *)

NotDecoded == "Metadata should be Decoded"
NotFound == "pallet not found in metadata"
Unsupported == "Unsupported metadata version"

\* a match that takes the list of either state
modules_any_state(dd) == Ok(dd.v)

\* match v12.modules { Decoded(modules) => modules, Encode(_) => return Err }
modules_decoded(dd) ==
    IF dd.st = "Decoded" THEN Ok(dd.v) ELSE Err("anyhow", NotDecoded)

\* a scan from the end of the list
RECURSIVE find_module_last(_, _)
find_module_last(modules, pallet) ==
    IF modules = <<>> THEN None
    ELSE IF dd_eq(modules[Len(modules)].name, Decoded(pallet))
    THEN Some(modules[Len(modules)])
    ELSE find_module_last(Take(modules, Len(modules) - 1), pallet)

\* modules.iter().find(|module| module.name == DecodeDifferent::Decoded(pallet.into()))
RECURSIVE find_module(_, _)
find_module(modules, pallet) ==
    IF modules = <<>> THEN None
    ELSE IF dd_eq(Head(modules).name, Decoded(pallet)) THEN Some(Head(modules))
    ELSE find_module(Tail(modules), pallet)

\* v14.pallets.iter().find(|m| &m.name == pallet)
RECURSIVE find_pallet(_, _)
find_pallet(ps, pallet) ==
    IF ps = <<>> THEN None
    ELSE IF str_eq(Head(ps).name, pallet) THEN Some(Head(ps))
    ELSE find_pallet(Tail(ps), pallet)

\* Option::ok_or_else
ok_or_else(o, e) == IF o.some THEN Ok(o.v) ELSE e

\* a not-found error that names the pallet
not_found_named(pallet) == [Err("anyhow", NotFound) EXCEPT !.args = <<pallet>>]

\* anyhow!("pallet not found in metadata")
not_found(pallet) == Err("anyhow", NotFound)

\* the V12 and V13 arms
display_legacy(r, pallet) ==
    try(modules_decoded(r.modules), LAMBDA modules :
        try(ok_or_else(find_module(modules, pallet), not_found(pallet)),
            LAMBDA module : Ok(ser_module(module, 0))))

\* the V14 arm
display_v14(r, pallet) ==
    try(ok_or_else(find_pallet(r.pallets, pallet), not_found(pallet)),
        LAMBDA p : Ok(ser_pallet(p, 0)))

\* a match whose last arm reports the pallet as not found
display_named_any_version(r, pallet) ==
    IF r.version = 14 THEN display_v14(r, pallet)
    ELSE IF r.version = 12 \/ r.version = 13 THEN display_legacy(r, pallet)
    ELSE not_found(pallet)

\* match metadata.1 { V12 .. , V13 .. , V14 .. , _ => Err }
display_named(r, pallet) ==
    IF r.version = 12 THEN display_legacy(r, pallet)
    ELSE IF r.version = 13 THEN display_legacy(r, pallet)
    ELSE IF r.version = 14 THEN display_v14(r, pallet)
    ELSE Err("anyhow", Unsupported)

\* a display that checks the version and the list before the name
display_metadata_dispatch_first(m, p) ==
    IF ~(m.runtime.version \in {12, 13, 14}) THEN Err("anyhow", Unsupported)
    ELSE IF (m.runtime.version # 14) /\ m.runtime.modules.st # "Decoded"
    THEN Err("anyhow", NotDecoded)
    ELSE IF p.some THEN display_named(m.runtime, p.v)
    ELSE Ok(ser_prefixed(m))

\* the text display_metadata hands to println!, or the error it returns
display_metadata(m, p) ==
    IF p.some THEN display_named(m.runtime, p.v) ELSE Ok(ser_prefixed(m))

----------------------------------------------------------------------------
(* The inputs.                                                             *)

\* "Ba", "ba", "B": one name, the same in another case, and a proper prefix.
Names == {<<66, 97>>, <<98, 97>>, <<66>>}

Indexes == {0, 1}

\* the bytes "meta", frame_metadata::META_RESERVED as a little-endian u32
MetaBytes == <<109, 101, 116, 97>>
MetaReserved == le_u32(MetaBytes)

SeqsUpTo(S, n) == UNION {[1..k -> S] : k \in 0..n}

PalletOptions == {None} \cup {Some(n) : n \in Names}

\* what a node can put on the wire: every DecodeDifferent is written as its
\* inner value and read back as Decoded
WireModules == [name : {Decoded(n) : n \in Names}, index : Indexes]
WirePallets == [name : Names, index : Indexes]

WireRuntimes ==
    [version : {12, 13},
     modules : {Decoded(l) : l \in SeqsUpTo(WireModules, MaxModules)},
     extrinsic : {4}]
    \cup [version : {14}, pallets : SeqsUpTo(WirePallets, MaxModules),
          extrinsic : {4}]

WireMetadata == [prefix : {MetaReserved}, runtime : WireRuntimes]

\* every value of the parameter type of display_metadata: either state of
\* the module list and of each name, and the variants the match leaves to `_`
LegacyModules ==
    [name : {Decoded(n) : n \in Names} \cup {Encode(n) : n \in Names},
     index : Indexes]

Runtimes ==
    [version : {12, 13},
     modules : {Decoded(l) : l \in SeqsUpTo(LegacyModules, MaxModules)}
               \cup {Encode(l) : l \in SeqsUpTo(LegacyModules, MaxModules)},
     extrinsic : {4}]
    \cup [version : {14}, pallets : SeqsUpTo(WirePallets, MaxModules),
          extrinsic : {4}]
    \cup [version : {11, 15}, opaque : {<<>>, <<8, 66, 97>>}]

MetadataValues == [prefix : {MetaReserved}, runtime : Runtimes]

\* SCALE encoding of a wire value (Encode for RuntimeMetadataPrefixed)
le_bytes_u32(n) ==
    <<n % 256, (n \div 256) % 256, (n \div 65536) % 256, n \div 16777216>>

RECURSIVE enc_items(_, _)
enc_items(items, legacy) ==
    IF items = <<>> THEN <<>>
    ELSE (IF legacy THEN dd_str_encode(Head(items).name)
          ELSE str_encode(Head(items).name))
         \o <<Head(items).index>> \o enc_items(Tail(items), legacy)

enc_runtime(r) ==
    IF r.version = 14
    THEN <<14>> \o compact_encode(Len(r.pallets)) \o enc_items(r.pallets, FALSE)
         \o <<r.extrinsic>>
    ELSE <<r.version>> \o compact_encode(Len(r.modules.v))
         \o enc_items(r.modules.v, TRUE) \o <<r.extrinsic>>

enc_prefixed(m) == le_bytes_u32(m.prefix) \o enc_runtime(m.runtime)

ValidBuffers == {enc_prefixed(m) : m \in WireMetadata}

\* every prefix of a valid buffer, the buffer itself included
Truncations == UNION {{Take(b, k) : k \in 0..Len(b)} : b \in ValidBuffers}

\* the first byte of the 4-byte prefix replaced
BadMagicBuffers == {[b EXCEPT ![1] = 0] : b \in {t \in Truncations : Len(t) >= 4}}

\* the variant byte replaced by one of a deprecated or an unknown variant
BadTagBuffers ==
    {[b EXCEPT ![5] = t] : b \in {t \in Truncations : Len(t) >= 5}, t \in {11, 15}}

\* the length byte of the first name replaced by a length of 40
BadLengthBuffers ==
    {[b EXCEPT ![7] = 160] : b \in {v \in ValidBuffers : Len(v) >= 7}}

\* bytes after the encoded value
TrailingBuffers == {b \o <<0>> : b \in {v \in ValidBuffers : Len(v) <= 11}}

Buffers ==
    Truncations \cup BadMagicBuffers \cup BadTagBuffers \cup BadLengthBuffers
    \cup TrailingBuffers

to_hex(b) ==
    [i \in 1..(2 * Len(b)) |->
        IF i % 2 = 1 THEN HexLower[(b[(i + 1) \div 2] \div 16) + 1]
        ELSE HexLower[(b[i \div 2] % 16) + 1]]

StringResult(s) == [transport |-> "ok", body |-> "json", ty |-> "string", s |-> s]

\* other shapes of the result string, for the shortest valid buffers
OddStrings ==
    LET h == {to_hex(b) : b \in {v \in ValidBuffers : Len(v) <= 7}}
    IN  h \cup {<<"0", "x", "0", "x">> \o x : x \in h}
          \cup {<<"0", "X">> \o x : x \in h}
          \cup {<<"0", "x">> \o Take(x, Len(x) - 1) : x \in h}
          \cup {<<"0", "x">> \o [x EXCEPT ![1] = "g"] : x \in h}
          \cup {<<"0", "x">> \o [x EXCEPT ![1] = "6", ![2] = "D"] : x \in h}
          \cup {<<>>, <<"0", "x">>}

Responses ==
    {StringResult(<<"0", "x">> \o to_hex(b)) : b \in Buffers}
    \cup {StringResult(s) : s \in OddStrings}
    \cup {[transport |-> "error", body |-> "none", ty |-> "null", s |-> <<>>],
          [transport |-> "ok", body |-> "malformed", ty |-> "null", s |-> <<>>],
          [transport |-> "ok", body |-> "json", ty |-> "null", s |-> <<>>],
          [transport |-> "ok", body |-> "json", ty |-> "number", s |-> <<>>]}

NoResponse == [transport |-> "none", body |-> "none", ty |-> "null", s |-> <<>>]

NoCommand == [variant |-> "none"]

----------------------------------------------------------------------------
(* Meta::run.                                                              *)

Init ==
    /\ pc = "fetch"
    /\ resp \in Responses
    /\ pallets \in PalletOptions
    /\ metadata = NoMetadata
    /\ stdout = <<>>
    /\ result = Running
    /\ command = NoCommand
    /\ calls = <<>>

\* let metadata = Self::fetch_metadata(&get_opt.url)?;
FetchMetadata ==
    /\ pc = "fetch"
    /\ LET r == fetch_metadata(resp)
       IN  IF r.ok
           THEN metadata' = r.val /\ pc' = "display" /\ UNCHANGED result
           ELSE result' = r /\ pc' = "done" /\ UNCHANGED metadata
    /\ UNCHANGED <<resp, pallets, stdout, command, calls>>

\* a display that prints the whole metadata before it looks the pallet up
DisplayMetadataPrintFirst ==
    /\ pc = "display"
    /\ LET r == display_metadata(metadata, pallets)
       IN  IF r.ok
           THEN stdout' = <<ser_prefixed(metadata), r.val>> /\ result' = Ok(<<>>)
           ELSE stdout' = <<ser_prefixed(metadata)>> /\ result' = r
    /\ pc' = "done"
    /\ UNCHANGED <<resp, pallets, metadata, command, calls>>

\* Self::display_metadata(metadata, get_opt.pallet)?; Ok(())
DisplayMetadata ==
    /\ pc = "display"
    /\ LET r == display_metadata(metadata, pallets)
       IN  IF r.ok
           THEN stdout' = Append(stdout, r.val) /\ result' = Ok(<<>>)
           ELSE result' = r /\ UNCHANGED stdout
    /\ pc' = "done"
    /\ UNCHANGED <<resp, pallets, metadata, command, calls>>

Next == FetchMetadata \/ DisplayMetadata

Spec == Init /\ [][Next]_vars

\* display_metadata alone, over every value of its two parameters
LookupInit ==
    /\ pc = "display"
    /\ resp = NoResponse
    /\ pallets \in PalletOptions
    /\ metadata \in MetadataValues
    /\ stdout = <<>>
    /\ result = Running
    /\ command = NoCommand
    /\ calls = <<>>

LookupNext == DisplayMetadata

LookupSpec == LookupInit /\ [][LookupNext]_vars

----------------------------------------------------------------------------
(* RpcCommand::dispatch.                                                   *)
(*                                                                         *)
(* A command is a record: its variant and the fields the enum declares for *)
(* it.  A call on the Rpc is the method called and the arguments passed,   *)
(* in the order they are passed.  The methods themselves are the Rpc       *)
(* traits' (crate::rpc); what dispatch does is choose one and pass the     *)
(* arguments.                                                              *)

Call(method, args) == [method |-> method, args |-> args]

\* HashOrHeight
Height(number) == [kind |-> "Height", number |-> number]
Hash(hash) == [kind |-> "Hash", hash |-> hash]

\* a block lookup that takes every argument for a hash
block_call_always_by_hash(hash_or_height) ==
    IF hash_or_height.some /\ hash_or_height.v.kind = "Height"
    THEN Call("block_by_hash", <<Some(hash_or_height.v.number)>>)
    ELSE IF hash_or_height.some /\ hash_or_height.v.kind = "Hash"
    THEN Call("block_by_hash", <<Some(hash_or_height.v.hash)>>)
    ELSE Call("block_by_hash", <<None>>)

\* Block { hash_or_height } => match hash_or_height { .. }
block_call(hash_or_height) ==
    IF hash_or_height.some /\ hash_or_height.v.kind = "Height"
    THEN Call("block_by_number", <<Some(hash_or_height.v.number)>>)
    ELSE IF hash_or_height.some /\ hash_or_height.v.kind = "Hash"
    THEN Call("block_by_hash", <<Some(hash_or_height.v.hash)>>)
    ELSE Call("block_by_hash", <<None>>)

\* let fut = match self { .. }, one arm a line
dispatch_call(c) ==
    CASE c.variant = "Header" -> Call("header", <<c.hash>>)
      [] c.variant = "FinalizedHeader" -> Call("finalized_head", <<>>)
      [] c.variant = "BlockHash" -> Call("block_hash", <<c.height>>)
      [] c.variant = "Block" -> block_call(c.hash_or_height)
      [] c.variant = "SystemName" -> Call("system_name", <<>>)
      [] c.variant = "SystemVersion" -> Call("system_version", <<>>)
      [] c.variant = "SystemChain" -> Call("system_chain", <<>>)
      [] c.variant = "SystemProperties" -> Call("system_properties", <<>>)
      [] c.variant = "SystemHealth" -> Call("system_health", <<>>)
      [] c.variant = "SystemPeers" -> Call("system_peers", <<>>)
      [] c.variant = "SystemNetworkState" ->
            Call("system_network_state", <<>>)
      [] c.variant = "NextRenominate" ->
            Call("next_renominate", <<c.who, c.hash>>)
      [] c.variant = "Asset" ->
            Call("asset", <<c.who, c.index, c.size, c.hash>>)
      [] c.variant = "Assets" -> Call("assets", <<c.index, c.size, c.hash>>)
      [] c.variant = "VerifyAddr" ->
            Call("verify_addr", <<c.token, c.addr, c.memo, c.hash>>)
      [] c.variant = "WithdrawLimit" ->
            Call("withdraw_limit", <<c.token, c.hash>>)
      [] c.variant = "DepositLimit" ->
            Call("deposit_limit", <<c.token, c.hash>>)
      [] c.variant = "WithdrawList" ->
            Call("withdraw_list", <<c.chain, c.index, c.size, c.hash>>)
      [] c.variant = "DepositList" ->
            Call("deposit_list", <<c.chain, c.index, c.size, c.hash>>)
      [] c.variant = "NominationRecords" ->
            Call("nomination_records", <<c.who, c.hash>>)
      [] c.variant = "PseduNominationRecords" ->
            Call("psedu_nomination_records", <<c.who, c.hash>>)
      [] c.variant = "Intention" -> Call("intention", <<c.who, c.hash>>)
      [] c.variant = "Intentions" -> Call("intentions", <<c.hash>>)
      [] c.variant = "PseduIntentions" ->
            Call("psedu_intentions", <<c.hash>>)
      [] c.variant = "TradingPairs" -> Call("trading_pairs", <<c.hash>>)
      [] c.variant = "Quotations" ->
            Call("quotations", <<c.id, c.piece, c.hash>>)
      [] c.variant = "Orders" ->
            Call("orders", <<c.who, c.index, c.size, c.hash>>)
      [] c.variant = "AddrByAccount" ->
            Call("addr_by_account", <<c.who, c.chain, c.hash>>)
      [] c.variant = "TrusteeSession" ->
            Call("trustee_session_info", <<c.chain, c.era, c.hash>>)
      [] c.variant = "TrusteeInfo" ->
            Call("trustee_by_account", <<c.who, c.hash>>)
      [] c.variant = "CallFee" ->
            Call("call_fee", <<c.call, c.tx_len, c.hash>>)
      [] c.variant = "WithdrawTx" -> Call("withdraw_tx", <<c.chain, c.hash>>)
      [] c.variant = "MockBtcNewTrustees" ->
            Call("mock_btc_new_trustees", <<c.candidates, c.hash>>)
      [] c.variant = "ParticularAccounts" ->
            Call("particular_accounts", <<c.hash>>)

\* serde_json::to_string_pretty of the value the call resolved to
RECURSIVE to_string_pretty(_, _)
to_string_pretty(v, l) ==
    CASE v.ty = "null" -> <<110, 117, 108, 108>>
      [] v.ty = "number" -> json_num(v.n)
      [] v.ty = "string" -> json_str(v.s)
      [] v.ty = "array" ->
            json_arr([i \in 1..Len(v.items) |->
                         to_string_pretty(v.items[i], l + 1)], l)

RpcFailed == "rpc call failed"

(* The commands the command line can parse to, over a few values of each   *)
(* field's type.  Fields of one type draw from one set, so that two fields *)
(* passed in the wrong order give a different call.                        *)

Hashes == {"0xaa", "0xbb"}
OptHashes == {None} \cup {Some(h) : h \in Hashes}
Heights == {0, 7}
OptHeights == {None} \cup {Some(n) : n \in Heights}
OptHashOrHeights ==
    {None} \cup {Some(Height(n)) : n \in Heights}
           \cup {Some(Hash(h)) : h \in Hashes}
Pages == {0, 5}
Strings == {"PCX", "BTC"}
Chains == {"Bitcoin", "Ethereum"}
OptEras == {None, Some(0), Some(5)}
Lengths == {0, 7}
Candidates == {<<>>, <<"0xaa">>, <<"0xaa", "0xbb">>, <<"0xbb", "0xaa">>}

Commands ==
    [variant : {"Header"}, hash : OptHashes]
    \cup [variant : {"FinalizedHeader"}]
    \cup [variant : {"BlockHash"}, height : OptHeights]
    \cup [variant : {"Block"}, hash_or_height : OptHashOrHeights]
    \cup [variant : {"SystemName", "SystemVersion", "SystemChain",
                     "SystemProperties", "SystemHealth", "SystemPeers",
                     "SystemNetworkState"}]
    \cup [variant : {"NextRenominate"}, who : Hashes, hash : OptHashes]
    \cup [variant : {"Asset"}, who : Hashes, index : Pages, size : Pages,
          hash : OptHashes]
    \cup [variant : {"Assets"}, index : Pages, size : Pages,
          hash : OptHashes]
    \cup [variant : {"VerifyAddr"}, token : Strings, addr : Strings,
          memo : Strings, hash : OptHashes]
    \cup [variant : {"WithdrawLimit"}, token : Strings, hash : OptHashes]
    \cup [variant : {"DepositLimit"}, token : Strings, hash : OptHashes]
    \cup [variant : {"WithdrawList"}, chain : Chains, index : Pages,
          size : Pages, hash : OptHashes]
    \cup [variant : {"DepositList"}, chain : Chains, index : Pages,
          size : Pages, hash : OptHashes]
    \cup [variant : {"NominationRecords"}, who : Hashes, hash : OptHashes]
    \cup [variant : {"PseduNominationRecords"}, who : Hashes,
          hash : OptHashes]
    \cup [variant : {"Intention"}, who : Hashes, hash : OptHashes]
    \cup [variant : {"Intentions"}, hash : OptHashes]
    \cup [variant : {"PseduIntentions"}, hash : OptHashes]
    \cup [variant : {"TradingPairs"}, hash : OptHashes]
    \cup [variant : {"Quotations"}, id : Pages, piece : Pages,
          hash : OptHashes]
    \cup [variant : {"Orders"}, who : Hashes, index : Pages, size : Pages,
          hash : OptHashes]
    \cup [variant : {"AddrByAccount"}, who : Hashes, chain : Chains,
          hash : OptHashes]
    \cup [variant : {"TrusteeSession"}, chain : Chains, era : OptEras,
          hash : OptHashes]
    \cup [variant : {"TrusteeInfo"}, who : Hashes, hash : OptHashes]
    \cup [variant : {"CallFee"}, call : Strings, tx_len : Lengths,
          hash : OptHashes]
    \cup [variant : {"WithdrawTx"}, chain : Chains, hash : OptHashes]
    \cup [variant : {"MockBtcNewTrustees"}, candidates : Candidates,
          hash : OptHashes]
    \cup [variant : {"ParticularAccounts"}, hash : OptHashes]

\* what the call can resolve to: a JSON value, or an error
JsonValues ==
    {[ty |-> "null"], [ty |-> "number", n |-> 7],
     [ty |-> "string", s |-> <<66, 97>>],
     [ty |-> "array", items |-> <<>>],
     [ty |-> "array",
      items |-> <<[ty |-> "number", n |-> 12], [ty |-> "null"]>>]}

RpcResults ==
    {Ok(v) : v \in JsonValues} \cup {Err("crate::error::Error", RpcFailed)}

RpcInit ==
    /\ pc = "dispatch"
    /\ command \in Commands
    /\ resp \in RpcResults
    /\ calls = <<>>
    /\ pallets = None
    /\ metadata = NoMetadata
    /\ stdout = <<>>
    /\ result = Running

\* let fut = match self { .. };
Dispatch ==
    /\ pc = "dispatch"
    /\ calls' = Append(calls, dispatch_call(command))
    /\ pc' = "wait"
    /\ UNCHANGED <<resp, pallets, metadata, stdout, result, command>>

\* let response = fut.wait()?; to_string_pretty(&response)?; println!; Ok(())
Wait ==
    /\ pc = "wait"
    /\ IF resp.ok
       THEN stdout' = Append(stdout, to_string_pretty(resp.val, 0))
            /\ result' = Ok(<<>>)
       ELSE result' = resp /\ UNCHANGED stdout
    /\ pc' = "done"
    /\ UNCHANGED <<resp, pallets, metadata, command, calls>>

RpcNext == Dispatch \/ Wait

RpcSpec == RpcInit /\ [][RpcNext]_vars

----------------------------------------------------------------------------
(* The properties.                                                         *)

Supported(r) == r.version \in {12, 13, 14}
Legacy(r) == r.version \in {12, 13}
ListDecoded(r) == r.version = 14 \/ r.modules.st = "Decoded"
ComponentsOf(r) == IF r.version = 14 THEN r.pallets ELSE r.modules.v
NameOf(r, c) == IF r.version = 14 THEN c.name ELSE c.name.v
SerOf(r, c) == IF r.version = 14 THEN ser_pallet(c, 0) ELSE ser_module(c, 0)

\* the positions of the components named n, and the least of a set of positions
Matching(r, n) ==
    {i \in 1..Len(ComponentsOf(r)) : NameOf(r, ComponentsOf(r)[i]) = n}
Earliest(I) == CHOOSE i \in I : \A j \in I : i <= j

Displayed == pc = "done" /\ metadata # NoMetadata

\* the bytes fetch_metadata hands to the decoder, when it gets that far
GotBytes ==
    /\ resp.transport = "ok" /\ resp.body = "json" /\ resp.ty = "string"
    /\ hex_decode(trim_start_matches_0x(resp.s)).ok
FetchedBytes == hex_decode(trim_start_matches_0x(resp.s)).val

\* C1: with a name n, a supported version and a decoded list holding a
\* component named n, display_metadata prints the earliest component whose
\* name is n, as it is, and returns Ok; and whatever it prints for a name n
\* is a component named exactly n.
C1_FirstExactMatch ==
    (Displayed /\ pallets.some) =>
       LET r == metadata.runtime
       IN  /\ (Supported(r) /\ ListDecoded(r) /\ Matching(r, pallets.v) # {}) =>
                 /\ result = Ok(<<>>)
                 /\ stdout = <<SerOf(r, ComponentsOf(r)[Earliest(Matching(r, pallets.v))])>>
           /\ stdout # <<>> =>
                 /\ Supported(r) /\ ListDecoded(r)
                 /\ \E i \in Matching(r, pallets.v) :
                        stdout = <<SerOf(r, ComponentsOf(r)[i])>>

\* two different components named n: the first one is printed
C1_Witness ==
    /\ Displayed /\ pallets = Some(<<66, 97>>)
    /\ metadata.runtime.version = 12 /\ ListDecoded(metadata.runtime)
    /\ Matching(metadata.runtime, <<66, 97>>) = {1, 2}
    /\ metadata.runtime.modules.v[1] # metadata.runtime.modules.v[2]
    /\ stdout = <<ser_module(metadata.runtime.modules.v[1], 0)>>

\* C2: without a name, display_metadata prints the whole metadata and
\* returns Ok, whatever the version and the state of the module list.
C2_FullAlwaysSucceeds ==
    (Displayed /\ ~pallets.some) =>
        /\ result = Ok(<<>>)
        /\ stdout = <<ser_prefixed(metadata)>>

C2_Witness ==
    /\ Displayed /\ ~pallets.some
    /\ ~Supported(metadata.runtime)
    /\ result = Ok(<<>>) /\ Len(stdout) = 1

C4_ComponentsNotDecoded ==
    (Displayed /\ pallets.some /\ Legacy(metadata.runtime)
       /\ metadata.runtime.modules.st = "Encode") =>
        /\ result = Err("anyhow", NotDecoded)
        /\ result.msg # NotFound
        /\ stdout = <<>>

\* the undecoded list holds a module of the name asked for
C4_Witness ==
    /\ Displayed /\ pallets.some /\ Legacy(metadata.runtime)
    /\ metadata.runtime.modules.st = "Encode"
    /\ Matching(metadata.runtime, pallets.v) # {}
    /\ result = Err("anyhow", NotDecoded)

\* C5: with a name and a version other than V12, V13, V14, display_metadata
\* prints nothing and returns "Unsupported metadata version", which is
\* neither of the other two errors.
C5_UnsupportedVersion ==
    (Displayed /\ pallets.some /\ ~Supported(metadata.runtime)) =>
        /\ result = Err("anyhow", Unsupported)
        /\ result.msg \notin {NotFound, NotDecoded}
        /\ stdout = <<>>

C5_Witness ==
    /\ Displayed /\ pallets = Some(<<66, 97>>)
    /\ metadata.runtime.version = 15
    /\ metadata.runtime.opaque = <<8, 66, 97>>
    /\ result = Err("anyhow", Unsupported)

C7_BadMagicRejected ==
    (pc # "fetch" /\ GotBytes /\ Len(FetchedBytes) >= 4
       /\ Take(FetchedBytes, 4) # MetaBytes) =>
        /\ metadata = NoMetadata
        /\ ~result.ok /\ result.ty = "codec::Error"
        /\ stdout = <<>>

\* C8: bytes whose variant byte is none of 12, 13, 14 fail to decode with
\* the error of the variant, whatever follows that byte: no metadata is
\* produced, display_metadata is not reached and nothing is printed.
C8_UnknownVersionContained ==
    (pc # "fetch" /\ GotBytes /\ Len(FetchedBytes) >= 5
       /\ FetchedBytes[5] \notin {12, 13, 14}) =>
        /\ pc = "done"
        /\ metadata = NoMetadata
        /\ result \in {Err("codec::Error", NotSupported),
                       Err("codec::Error", NoSuchVariant)}
        /\ stdout = <<>>

\* an unknown variant byte in front of a well-formed body
C8_Witness ==
    /\ pc = "done" /\ GotBytes /\ Len(FetchedBytes) >= 5
    /\ FetchedBytes[5] = 15
    /\ [FetchedBytes EXCEPT ![5] = 14] \in ValidBuffers
    /\ Len(FetchedBytes) > 7
    /\ result = Err("codec::Error", NoSuchVariant)

ProperPrefixes ==
    UNION {{Take(b, k) : k \in 0..(Len(b) - 1)} : b \in ValidBuffers}

\* C9: a proper prefix of the encoding of a metadata value fails to decode
\* with the error of exhausted input: no metadata is produced and nothing
\* is printed.
C9_TruncatedFails ==
    (pc # "fetch" /\ GotBytes /\ FetchedBytes \in ProperPrefixes) =>
        /\ pc = "done"
        /\ metadata = NoMetadata
        /\ result = Err("codec::Error", NotEnoughData)
        /\ stdout = <<>>

\* an encoding with two modules cut one byte before its end
C9_Witness ==
    /\ pc = "done" /\ GotBytes
    /\ \E m \in WireMetadata :
          /\ m.runtime.version = 13 /\ Len(m.runtime.modules.v) = 2
          /\ FetchedBytes = Take(enc_prefixed(m), Len(enc_prefixed(m)) - 1)
    /\ result = Err("codec::Error", NotEnoughData)

FetchErrorTypes == {"ureq::Error", "std::io::Error", "anyhow", "hex::FromHexError"}
DecodeErrorTypes == {"codec::Error"}

\* C10: when fetch_metadata fails, the error it returns wraps a transport,
\* JSON, result-field or hex error exactly when no bytes were obtained, and
\* a codec error exactly when the bytes obtained failed to decode; the two
\* sets of error types are disjoint.
C10_FetchAndDecodeErrorsApart ==
    /\ FetchErrorTypes \cap DecodeErrorTypes = {}
    /\ (pc = "done" /\ metadata = NoMetadata) =>
          /\ ~result.ok
          /\ ~GotBytes => result.ty \in FetchErrorTypes
          /\ GotBytes => result.ty \in DecodeErrorTypes
          /\ resp.transport # "ok" => result.ty = "ureq::Error"
          /\ (resp.transport = "ok" /\ resp.body # "json") =>
                result.ty = "std::io::Error"
          /\ (resp.transport = "ok" /\ resp.body = "json" /\ resp.ty # "string") =>
                result = Err("anyhow", NotAString)
          /\ (resp.transport = "ok" /\ resp.body = "json" /\ resp.ty = "string"
                /\ ~GotBytes) => result.ty = "hex::FromHexError"

\* valid hex of bytes that do not decode
C10_Witness ==
    /\ pc = "done" /\ metadata = NoMetadata
    /\ GotBytes /\ Len(FetchedBytes) > 0
    /\ result.ty = "codec::Error"

\* C11: in one run, text is printed once at most, and only by a run in
\* which the fetch, the decoding and the lookup all succeeded, which then
\* returns Ok; a run in which one of them failed has printed nothing, has
\* not gone on to the next step and returns that step's error.
C11_PrintOnceAfterSuccess ==
    /\ Len(stdout) <= 1
    /\ stdout # <<>> =>
          /\ pc = "done" /\ result = Ok(<<>>)
          /\ GotBytes /\ scale_decode(FetchedBytes).ok
          /\ metadata = scale_decode(FetchedBytes).val
          /\ display_metadata(metadata, pallets) = Ok(stdout[1])
    /\ pc = "done" =>
          /\ result # Running
          /\ result.ok <=> Len(stdout) = 1
          /\ ~(GotBytes /\ scale_decode(FetchedBytes).ok) =>
                /\ metadata = NoMetadata
                /\ result = fetch_metadata(resp)
          /\ (GotBytes /\ scale_decode(FetchedBytes).ok
                /\ ~display_metadata(metadata, pallets).ok) =>
                result = display_metadata(metadata, pallets)
    /\ pc # "done" => (result = Running /\ stdout = <<>>)

\* a run whose fetch and decoding succeeded and whose lookup failed
C11_Witness ==
    /\ pc = "done" /\ metadata # NoMetadata /\ pallets.some
    /\ result = Err("anyhow", NotFound)
    /\ stdout = <<>>

\* C12 as claimed: the decoder is given the hex decoding of the result
\* string less one leading "0x"; a string that is not hex once that one
\* prefix is removed is rejected as invalid hex.
C12_OnePrefixStripped ==
    (pc # "fetch" /\ resp.transport = "ok" /\ resp.body = "json"
       /\ resp.ty = "string" /\ ~hex_decode(strip_one_0x(resp.s)).ok) =>
        /\ metadata = NoMetadata
        /\ ~result.ok /\ result.ty = "hex::FromHexError"

\* the fields the enum declares for a variant, in the order it declares them
DeclaredFields(v) ==
    CASE v \in {"FinalizedHeader", "SystemName", "SystemVersion",
                "SystemChain", "SystemProperties", "SystemHealth",
                "SystemPeers", "SystemNetworkState"} -> <<>>
      [] v \in {"Header", "Intentions", "PseduIntentions", "TradingPairs",
                "ParticularAccounts"} -> <<"hash">>
      [] v = "BlockHash" -> <<"height">>
      [] v = "Block" -> <<"hash_or_height">>
      [] v \in {"NextRenominate", "NominationRecords",
                "PseduNominationRecords", "Intention", "TrusteeInfo"} ->
            <<"who", "hash">>
      [] v \in {"Asset", "Orders"} -> <<"who", "index", "size", "hash">>
      [] v = "Assets" -> <<"index", "size", "hash">>
      [] v = "VerifyAddr" -> <<"token", "addr", "memo", "hash">>
      [] v \in {"WithdrawLimit", "DepositLimit"} -> <<"token", "hash">>
      [] v \in {"WithdrawList", "DepositList"} ->
            <<"chain", "index", "size", "hash">>
      [] v = "Quotations" -> <<"id", "piece", "hash">>
      [] v = "AddrByAccount" -> <<"who", "chain", "hash">>
      [] v = "TrusteeSession" -> <<"chain", "era", "hash">>
      [] v = "CallFee" -> <<"call", "tx_len", "hash">>
      [] v = "WithdrawTx" -> <<"chain", "hash">>
      [] v = "MockBtcNewTrustees" -> <<"candidates", "hash">>

\* the Rpc method that stands for a command other than block
MethodOf(v) ==
    CASE v = "Header" -> "header"
      [] v = "FinalizedHeader" -> "finalized_head"
      [] v = "BlockHash" -> "block_hash"
      [] v = "SystemName" -> "system_name"
      [] v = "SystemVersion" -> "system_version"
      [] v = "SystemChain" -> "system_chain"
      [] v = "SystemProperties" -> "system_properties"
      [] v = "SystemHealth" -> "system_health"
      [] v = "SystemPeers" -> "system_peers"
      [] v = "SystemNetworkState" -> "system_network_state"
      [] v = "NextRenominate" -> "next_renominate"
      [] v = "Asset" -> "asset"
      [] v = "Assets" -> "assets"
      [] v = "VerifyAddr" -> "verify_addr"
      [] v = "WithdrawLimit" -> "withdraw_limit"
      [] v = "DepositLimit" -> "deposit_limit"
      [] v = "WithdrawList" -> "withdraw_list"
      [] v = "DepositList" -> "deposit_list"
      [] v = "NominationRecords" -> "nomination_records"
      [] v = "PseduNominationRecords" -> "psedu_nomination_records"
      [] v = "Intention" -> "intention"
      [] v = "Intentions" -> "intentions"
      [] v = "PseduIntentions" -> "psedu_intentions"
      [] v = "TradingPairs" -> "trading_pairs"
      [] v = "Quotations" -> "quotations"
      [] v = "Orders" -> "orders"
      [] v = "AddrByAccount" -> "addr_by_account"
      [] v = "TrusteeSession" -> "trustee_session_info"
      [] v = "TrusteeInfo" -> "trustee_by_account"
      [] v = "CallFee" -> "call_fee"
      [] v = "WithdrawTx" -> "withdraw_tx"
      [] v = "MockBtcNewTrustees" -> "mock_btc_new_trustees"
      [] v = "ParticularAccounts" -> "particular_accounts"

\* the values of a command's fields, in the order the enum declares them
Forwarded(c) ==
    [i \in 1..Len(DeclaredFields(c.variant)) |->
        c[DeclaredFields(c.variant)[i]]]

IsHeight(c) ==
    c.variant = "Block" /\ c.hash_or_height.some
    /\ c.hash_or_height.v.kind = "Height"
IsHash(c) ==
    c.variant = "Block" /\ c.hash_or_height.some
    /\ c.hash_or_height.v.kind = "Hash"
IsAbsent(c) == c.variant = "Block" /\ ~c.hash_or_height.some

\* C13: dispatch makes exactly one call on the Rpc for a command: the method
\* that stands for the command's variant, given the values of the command's
\* fields, unchanged and in the order the enum declares them.  The block
\* command calls block_by_number with the height when it is given a height,
\* block_by_hash with the hash when it is given a hash, and block_by_hash
\* with no hash when it is given nothing.  Nothing is printed before the call
\* has resolved; when it resolves to a value that value is printed, once,
\* and dispatch returns Ok; when it fails nothing is printed and dispatch
\* returns the error.
C13_OneCallForwarded ==
    /\ pc = "dispatch" => calls = <<>>
    /\ pc \in {"wait", "done"} =>
        /\ Len(calls) = 1
        /\ command.variant # "Block" =>
              calls[1] = Call(MethodOf(command.variant), Forwarded(command))
        /\ IsHeight(command) =>
              calls[1] = Call("block_by_number",
                              <<Some(command.hash_or_height.v.number)>>)
        /\ IsHash(command) =>
              calls[1] = Call("block_by_hash",
                              <<Some(command.hash_or_height.v.hash)>>)
        /\ IsAbsent(command) => calls[1] = Call("block_by_hash", <<None>>)
    /\ pc \in {"dispatch", "wait"} => (stdout = <<>> /\ result = Running)
    /\ pc = "done" =>
        IF resp.ok
        THEN stdout = <<to_string_pretty(resp.val, 0)>> /\ result = Ok(<<>>)
        ELSE stdout = <<>> /\ result = resp

C13_Witness ==
    /\ pc = "done"
    /\ IsHeight(command)
    /\ calls = <<Call("block_by_number", <<Some(7)>>)>>
    /\ Len(stdout) = 1
    /\ result = Ok(<<>>)

====
